---------------------------- MODULE Spec2Model ----------------------------
(***************************************************************************)
(* Model of the Session & Assessment Engine of the AI Mock Interview API   *)
(* (src/main.py): create_session, get_text_question, submit_text_answer,   *)
(* submit_voice_answer, round_summary, final_report, with _pick_question   *)
(* and _make_id, over the optional store `db`.                             *)
(*                                                                         *)
(* Strings that the code measures (the submitted answer) are run-length    *)
(* encoded: a sequence of runs [ch, n], n >= 1, adjacent runs of different *)
(* characters.  Free-text fields the code only copies (job_role,           *)
(* experience, company, resume_text) and the two timestamps are left out   *)
(* of the documents; no decision of the code reads them.                   *)
(***************************************************************************)
EXTENDS Integers, Sequences, FiniteSets, TLC

\* ------------------------------ bounds ----------------------------------
\* Size of the identifier space: the values random.choices can return for
\* the 10-character suffix of _make_id.
NumIds == 2
\* Documents the store holds at most, over both collections.
MaxDocs == 2
\* Longest answer body enumerated in ephemeral mode (characters).
MaxAnswerLen == 320
\* Longest run of padding whitespace put around an answer.
MaxPad == 1

\* ------------------------- program constants ----------------------------
TotalRounds == 5
MinScore == 30
MaxScore == 100
BaseScore == 40
CharsPerPoint == 5
PassMark == 60

\* Python's None (db unset, an omitted query parameter).
NoneValue == "<None>"

Max(a, b) == IF a >= b THEN a ELSE b
Min(a, b) == IF a <= b THEN a ELSE b

\* ------------------------------ strings ---------------------------------
IsSpace(c) == c \in {" ", "\t", "\n"}

RECURSIVE StrLen(_)
StrLen(s) == IF s = <<>> THEN 0 ELSE Head(s).n + StrLen(Tail(s))

RECURSIVE LStrip(_)
LStrip(s) ==
    IF s = <<>> THEN s
    ELSE IF IsSpace(Head(s).ch) THEN LStrip(Tail(s)) ELSE s

RECURSIVE RStrip(_)
RStrip(s) ==
    IF s = <<>> THEN s
    ELSE IF IsSpace(s[Len(s)].ch) THEN RStrip(SubSeq(s, 1, Len(s) - 1)) ELSE s

\* str.strip(): leading and trailing whitespace removed, the inside kept.
Strip(s) == RStrip(LStrip(s))

Run(c, k) == IF k = 0 THEN <<>> ELSE <<[ch |-> c, n |-> k]>>

\* lead spaces, then a body of `body` characters, then trail spaces; with
\* inner (and body >= 3) the body's second character is a space.
Text(lead, body, inner, trail) ==
    Run(" ", lead)
    \o (IF inner /\ body >= 3
        THEN Run("x", 1) \o Run(" ", 1) \o Run("x", body - 2)
        ELSE Run("x", body))
    \o (IF body = 0 THEN <<>> ELSE Run(" ", trail))

\* ---------------------------- identifiers -------------------------------
\* _make_id: the prefix, an underscore and a random suffix; the suffix is
\* any value of the identifier space.
MakeId(prefix, suffix) == <<prefix, "_", suffix>>

Suffixes == 1..NumIds

\* ----------------------------- the bank ---------------------------------
QUESTIONS_BANK ==
    [Easy |->
        << <<"Explain the difference between HTTP and HTTPS.",
             "HTTPS is HTTP over TLS providing encryption, integrity, and authentication.">>,
           <<"What is a REST API?",
             "An architectural style using stateless communication over HTTP with resources identified by URIs.">> >>,
     Intermediate |->
        << <<"Describe how you would design a URL shortener.",
             "Use hash/id mapping, datastore, caching, redirect service, rate limiting, and analytics.">>,
           <<"Explain CAP theorem.",
             "In distributed systems you can only have two of Consistency, Availability, and Partition tolerance.">> >>,
     Advanced |->
        << <<"How does a garbage collector work in managed runtimes?",
             "It tracks object reachability, reclaims unreachable memory via algorithms like mark-sweep, generational GC.">>,
           <<"What strategies would you use to scale a write-heavy database?",
             "Sharding, write queues, batching, eventual consistency, appropriate indexes, partitioning.">> >>]

\* QUESTIONS_BANK.get(difficulty, [])
BankGet(difficulty) ==
    IF difficulty \in DOMAIN QUESTIONS_BANK THEN QUESTIONS_BANK[difficulty] ELSE <<>>

Tagged(entries, level) ==
    [i \in 1..Len(entries) |-> [q |-> entries[i][1], a |-> entries[i][2], level |-> level]]

FallbackQuestion(difficulty) ==
    [q |-> "Tell me about yourself.",
     a |-> "Give a concise summary of your background, achievements, and goals.",
     level |-> difficulty]

\* Mutant: Mixed is looked up in the bank like any other label.
PoolMixedAsKey(difficulty) ==
    LET pool == Tagged(BankGet(difficulty), difficulty)
    IN  IF pool = <<>> THEN <<FallbackQuestion(difficulty)>> ELSE pool

\* The candidate pool _pick_question builds before random.choice.
Pool(difficulty) ==
    LET pool == IF difficulty = "Mixed"
                THEN Tagged(QUESTIONS_BANK["Easy"], "Easy")
                     \o Tagged(QUESTIONS_BANK["Intermediate"], "Intermediate")
                     \o Tagged(QUESTIONS_BANK["Advanced"], "Advanced")
                ELSE Tagged(BankGet(difficulty), difficulty)
    IN  IF pool = <<>> THEN <<FallbackQuestion(difficulty)>> ELSE pool

\* _pick_question with its two random draws made explicit: the index
\* random.choice picks and the suffix _make_id draws.
PickQuestion(difficulty, choice, suffix) ==
    LET e == Pool(difficulty)[choice]
    IN  [id |-> MakeId("q", suffix), text |-> e.q,
         difficulty |-> e.level, correct_answer |-> e.a]

\* ------------------------------ scoring ---------------------------------
\* Mutant: the answer is measured without strip().
AnswerLenUnstripped(answer) == StrLen(answer)

AnswerLen(answer) == StrLen(Strip(answer))

\* Mutant: the upper clamp min(100, ...) is left out.
ContentScoreUnclamped(answer) ==
    Max(MinScore, AnswerLen(answer) \div CharsPerPoint + BaseScore)

ContentScore(answer) ==
    Max(MinScore, Min(MaxScore, AnswerLen(answer) \div CharsPerPoint + BaseScore))

Feedback(answer) ==
    [correct |-> ContentScore(answer) > PassMark,
     grammar_fixes |-> "Capitalize proper nouns. Keep sentences concise.",
     content_score |-> ContentScore(answer),
     correct_answer |-> "Sample ideal answer with structured points and examples.",
     next_available |-> TRUE]

\* ------------------------------- state ----------------------------------
VARIABLES
    db,         \* NoneValue when no store is configured, else "db"
    session,    \* db["session"]: the Session documents, in insertion order
    response,   \* db["response"]: the Response documents, in insertion order
    req,        \* the last request served: its operation and its arguments
    ret         \* what that request returned to its caller

vars == <<db, session, response, req, ret>>

Init ==
    /\ db \in {NoneValue, "db"}
    /\ session = <<>>
    /\ response = <<>>
    /\ req = [op |-> "start", args |-> <<>>]
    /\ ret = [status |-> "ok", body |-> <<>>]

Request(op, args) == [op |-> op, args |-> args]
Ok(body) == [status |-> "ok", body |-> body]
\* The request is refused by the validation of its model (HTTP 422); the
\* handler does not run.
Rejected == [status |-> "rejected", body |-> <<>>]
\* An exception left the handler (HTTP 500).
Raised == [status |-> "error", body |-> <<>>]

SessionIds == {session[i]._id : i \in 1..Len(session)}

\* Collection.insert_one: the write is refused (raised = TRUE) when the store
\* fails or the document's _id is already in the collection, else the
\* document is appended.
InsertOne(coll, doc, storeOk) ==
    IF ~storeOk
       \/ ("_id" \in DOMAIN doc /\ \E i \in 1..Len(coll) : coll[i]._id = doc._id)
    THEN [raised |-> TRUE, coll |-> coll]
    ELSE [raised |-> FALSE, coll |-> Append(coll, doc)]

\* Room left in the store (the bound of the model; a failed write needs none).
HasRoom == Len(session) + Len(response) < MaxDocs

\* ------------------------------ requests --------------------------------
\* Mutant: mode is declared str, so only the difficulty is validated.
ValidSessionCreateAnyMode(payload) ==
    payload.difficulty \in {"Easy", "Intermediate", "Advanced", "Mixed"}

\* SessionCreate: the two Literal fields.
ValidSessionCreate(payload) ==
    /\ payload.mode \in {"text", "voice"}
    /\ payload.difficulty \in {"Easy", "Intermediate", "Advanced", "Mixed"}

SessionDoc(payload, session_id) ==
    [_id |-> session_id, mode |-> payload.mode, difficulty |-> payload.difficulty,
     paid |-> TRUE, progress |-> [current |-> 0, total |-> TotalRounds]]

\* create_session; suffix is the draw of _make_id, storeOk whether the
\* store accepts the write.
CreateSession(payload, suffix, storeOk) ==
    /\ req' = Request("createSession", payload)
    /\ IF ~ValidSessionCreate(payload)
       THEN /\ ret' = Rejected
            /\ UNCHANGED <<db, session, response>>
       ELSE LET session_id == MakeId("sess", suffix)
                doc == SessionDoc(payload, session_id)
            IN  IF db = NoneValue
                THEN /\ ret' = Ok([session_id |-> session_id, progress |-> doc.progress])
                     /\ UNCHANGED <<db, session, response>>
                ELSE LET w == InsertOne(session, doc, storeOk)
                     IN  /\ ~w.raised => HasRoom
                         /\ session' = w.coll
                         /\ ret' = IF w.raised
                                   THEN Raised
                                   ELSE Ok([session_id |-> session_id,
                                            progress |-> doc.progress])
                         /\ UNCHANGED <<db, response>>

\* Mutant: the round number is drawn from 1..6 (randint(1, 6)).
NextQuestionOffByOne(session_id, difficulty, choice, suffix, current) ==
    LET d == IF difficulty \in {NoneValue, ""} THEN "Mixed" ELSE difficulty
        q == PickQuestion(d, choice, suffix)
    IN  /\ req' = Request("nextQuestion",
                          [session_id |-> session_id, difficulty |-> difficulty])
        /\ ret' = Ok([question |-> [id |-> q.id, text |-> q.text,
                                    difficulty |-> q.difficulty],
                      progress |-> [current |-> current + 1, total |-> TotalRounds]])
        /\ UNCHANGED <<db, session, response>>

\* Mutant: nextQuestion advances the progress of the first stored Session.
NextQuestionAdvancesStored(session_id, difficulty, choice, suffix, current) ==
    LET d == IF difficulty \in {NoneValue, ""} THEN "Mixed" ELSE difficulty
        q == PickQuestion(d, choice, suffix)
    IN  /\ req' = Request("nextQuestion",
                          [session_id |-> session_id, difficulty |-> difficulty])
        /\ ret' = Ok([question |-> [id |-> q.id, text |-> q.text,
                                    difficulty |-> q.difficulty],
                      progress |-> [current |-> current, total |-> TotalRounds]])
        /\ session' = IF session = <<>> THEN session
                      ELSE [session EXCEPT ![1].progress.current =
                                Min(TotalRounds, @ + 1)]
        /\ UNCHANGED <<db, response>>

\* get_text_question; choice is the index random.choice picks, suffix the
\* draw of _make_id, current the value of random.randint(1, 5).
NextQuestion(session_id, difficulty, choice, suffix, current) ==
    LET d == IF difficulty \in {NoneValue, ""} THEN "Mixed" ELSE difficulty
        q == PickQuestion(d, choice, suffix)
    IN  /\ req' = Request("nextQuestion",
                          [session_id |-> session_id, difficulty |-> difficulty])
        /\ ret' = Ok([question |-> [id |-> q.id, text |-> q.text,
                                    difficulty |-> q.difficulty],
                      progress |-> [current |-> current, total |-> TotalRounds]])
        /\ UNCHANGED <<db, session, response>>

ResponseDoc(payload, feedback) ==
    [session_id |-> payload.session_id, question_id |-> payload.question_id,
     answer |-> payload.answer, feedback |-> feedback]

\* Mutant: the `if db is not None` guard is left out, so without a store the
\* write raises.
SubmitTextAnswerUnguarded(payload, storeOk) ==
    LET feedback == Feedback(payload.answer)
        w == InsertOne(response, ResponseDoc(payload, feedback),
                       storeOk /\ db # NoneValue)
    IN  /\ req' = Request("submitTextAnswer", payload)
        /\ ~w.raised => HasRoom
        /\ response' = w.coll
        /\ ret' = IF w.raised THEN Raised ELSE Ok(feedback)
        /\ UNCHANGED <<db, session>>

\* submit_text_answer; storeOk is whether the store accepts the write.
SubmitTextAnswer(payload, storeOk) ==
    LET feedback == Feedback(payload.answer)
    IN  /\ req' = Request("submitTextAnswer", payload)
        /\ IF db # NoneValue
           THEN LET w == InsertOne(response, ResponseDoc(payload, feedback), storeOk)
                IN  /\ ~w.raised => HasRoom
                    /\ response' = w.coll
                    /\ ret' = IF w.raised THEN Raised ELSE Ok(feedback)
                    /\ UNCHANGED <<db, session>>
           ELSE /\ ret' = Ok(feedback)
                /\ UNCHANGED <<db, session, response>>

SubmitVoiceAnswer(session_id, question_id) ==
    /\ req' = Request("submitVoiceAnswer",
                      [session_id |-> session_id, question_id |-> question_id])
    /\ ret' = Ok([tone |-> 78, clarity |-> 82, confidence |-> 75, grammar |-> 80,
                  correct_answer |-> "Ideal answer outline for the asked question."])
    /\ UNCHANGED <<db, session, response>>

RoundSummary(session_id) ==
    /\ req' = Request("roundSummary", [session_id |-> session_id])
    /\ ret' = Ok([score |-> 76,
                  strengths |-> <<"Clear structure", "Good examples">>,
                  mistakes |-> <<"Missed edge cases", "Overlong intro">>,
                  tips |-> <<"Use STAR format", "Quantify impact", "Conclude crisply">>])
    /\ UNCHANGED <<db, session, response>>

FinalReport(session_id) ==
    /\ req' = Request("finalReport", [session_id |-> session_id])
    /\ ret' = Ok([categories |-> [Technical |-> 78, Coding |-> 72, Logical |-> 80,
                                  HR |-> 70, Communication |-> 82],
                  plan |-> <<"Day 1-2: Review data structures",
                             "Day 3-4: Mock interviews (2/day)",
                             "Day 5: Behavioral answers",
                             "Day 6: System design drills",
                             "Day 7: Full-length simulation">>,
                  overall |-> 76])
    /\ UNCHANGED <<db, session, response>>

\* ------------------------------ inputs ----------------------------------
\* createSession payloads: the two valid modes and one that is not, one
\* valid difficulty and one that is not.
SessionCreates == [mode : {"text", "voice", "video"}, difficulty : {"Easy", "Hard"}]

\* Session identifiers a caller may send: any of the identifier space.
SessionIdInputs == {MakeId("sess", s) : s \in Suffixes}
QuestionIdInputs == {MakeId("q", 1)}
\* The handlers that only read take a session_id and never look at it: one
\* value stands for all.
ReadSessionIds == {MakeId("sess", 1)}

\* Answers sent to the engine as a whole: a blank one, and one whose
\* trimmed length is past the pass mark, padded and with a space inside.
Answers == {Text(MaxPad, 0, FALSE, 0), Text(MaxPad, 105, TRUE, MaxPad)}

\* The lengths around each threshold of the score: empty, the first step
\* of the division (4, 5), the pass mark (100..105), the upper clamp.
BoundaryLengths == {0, 4, 5, 100, 101, 104, 105, 299, 300}

\* The answers of those lengths, padded with MaxPad spaces on both sides.
BoundaryAnswers == {Text(MaxPad, body, FALSE, MaxPad) : body \in BoundaryLengths}

\* Every bare answer up to MaxAnswerLen characters, and the answers of the
\* boundary lengths with every padding up to MaxPad spaces on either side,
\* with and without a space inside.
DenseAnswers ==
    {Text(0, body, FALSE, 0) : body \in 0..MaxAnswerLen}
    \cup {Text(lead, body, inner, trail) :
            lead \in 0..MaxPad, body \in BoundaryLengths,
            inner \in BOOLEAN, trail \in 0..MaxPad}

\* Difficulty labels nextQuestion is asked for: omitted, empty, the four of
\* the engine, and one the bank does not know.
DifficultyInputs == {NoneValue, "", "Easy", "Intermediate", "Advanced", "Mixed", "Hard"}

Effective(difficulty) == IF difficulty \in {NoneValue, ""} THEN "Mixed" ELSE difficulty

DoCreateSession ==
    \E payload \in SessionCreates, suffix \in Suffixes, storeOk \in BOOLEAN :
        CreateSession(payload, suffix, storeOk)

DoNextQuestion(difficulties) ==
    \E session_id \in ReadSessionIds, difficulty \in difficulties,
       suffix \in Suffixes, current \in 1..TotalRounds :
        \E choice \in 1..Len(Pool(Effective(difficulty))) :
            NextQuestion(session_id, difficulty, choice, suffix, current)

DoSubmitTextAnswer(sessionIds, answers) ==
    \E session_id \in sessionIds, question_id \in QuestionIdInputs,
       answer \in answers, storeOk \in BOOLEAN :
        SubmitTextAnswer([session_id |-> session_id, question_id |-> question_id,
                          answer |-> answer], storeOk)

DoSubmitVoiceAnswer ==
    \E session_id \in ReadSessionIds, question_id \in QuestionIdInputs :
        SubmitVoiceAnswer(session_id, question_id)

DoRoundSummary == \E session_id \in ReadSessionIds : RoundSummary(session_id)

DoFinalReport == \E session_id \in ReadSessionIds : FinalReport(session_id)

\* The engine as a whole: every operation, in any order.
Next ==
    \/ DoCreateSession
    \/ DoNextQuestion({"Easy"})
    \/ DoSubmitTextAnswer(SessionIdInputs, Answers)
    \/ DoSubmitVoiceAnswer
    \/ DoRoundSummary
    \/ DoFinalReport

Spec == Init /\ [][Next]_vars

\* The question bank: nextQuestion for every difficulty label.
NextDraw == DoNextQuestion(DifficultyInputs)

SpecDraw == Init /\ [][NextDraw]_vars

\* The scoring policy: submitTextAnswer over every answer when nothing is
\* stored, and over the answers around the thresholds when each is stored.
NextScore ==
    \/ db = NoneValue /\ DoSubmitTextAnswer(ReadSessionIds, DenseAnswers)
    \/ db # NoneValue /\ DoSubmitTextAnswer(ReadSessionIds, BoundaryAnswers)

SpecScore == Init /\ [][NextScore]_vars

\* ------------------------- vocabulary of the claims ----------------------
\* The trimmed length of an answer, counted directly: the characters from
\* the first run that is not whitespace to the last one.
RECURSIVE SumRuns(_, _, _)
SumRuns(s, i, j) == IF i > j THEN 0 ELSE s[i].n + SumRuns(s, i + 1, j)

TrimLen(s) ==
    LET solid == {i \in 1..Len(s) : s[i].ch \notin {" ", "\t", "\n"}}
    IN  IF solid = {} THEN 0
        ELSE SumRuns(s, CHOOSE i \in solid : \A j \in solid : i <= j,
                        CHOOSE i \in solid : \A j \in solid : j <= i)

\* floor(L / 5), as the one k with 5k <= L < 5k + 5; it is looked for next
\* to the quotient only to keep the search short.
FloorFifth(L) ==
    CHOOSE k \in (L \div 5 - 1)..(L \div 5 + 1) : 5 * k <= L /\ L < 5 * k + 5

Clamp(x, lo, hi) == IF x < lo THEN lo ELSE IF x > hi THEN hi ELSE x

Served(op) == req.op = op /\ ret.status = "ok"

BankLevels == {"Easy", "Intermediate", "Advanced"}

\* The prompts the bank holds under a level.
BankPrompts(level) ==
    {QUESTIONS_BANK[level][i][1] : i \in 1..Len(QUESTIONS_BANK[level])}

ZeroOfFive == [current |-> 0, total |-> 5]

\* -------------------------------- C1 -------------------------------------
\* C1: in every reachable state every stored Session has progress.current
\* <= progress.total = 5, createSession returns progress {0, 5}, and
\* nextQuestion returns progress.current in 1..5 with total 5.
C1_ProgressWithinTotal ==
    /\ \A i \in 1..Len(session) :
          /\ session[i].progress.total = 5
          /\ session[i].progress.current <= session[i].progress.total
    /\ Served("createSession") =>
          /\ ret.body.progress.current = 0
          /\ ret.body.progress.total = 5
    /\ req.op = "nextQuestion" =>
          /\ ret.status = "ok"
          /\ ret.body.progress.current \in 1..5
          /\ ret.body.progress.total = 5

\* nextQuestion reports the last round while a Session and a Response are
\* stored.
C1_Witness ==
    /\ Served("nextQuestion")
    /\ ret.body.progress.current = 5
    /\ Len(session) >= 1
    /\ Len(response) >= 1

\* -------------------------------- C2 -------------------------------------
\* C2 (as claimed): every stored Response references a stored Session, and
\* submitTextAnswer for a session_id that was never created stores nothing
\* and does not return Feedback.
C2_ResponsesReferenceSessions ==
    /\ \A i \in 1..Len(response) : response[i].session_id \in SessionIds
    /\ (req.op = "submitTextAnswer" /\ req.args.session_id \notin SessionIds)
          => ret.status # "ok"

\* -------------------------------- C3 -------------------------------------
\* C3 (as claimed): createSession with a valid payload and submitTextAnswer
\* never end in an error; a failed store write is absorbed.
C3_StoreErrorsAbsorbed ==
    req.op \in {"createSession", "submitTextAnswer"} => ret.status # "error"

\* -------------------------------- C4 -------------------------------------
\* C4: without a store nothing is ever persisted, createSession (valid
\* payload) and submitTextAnswer always succeed, and what they return is
\* what a successful call returns with a store: {session_id, progress
\* {0, 5}} with a sess identifier, resp. the Feedback of the answer.
C4_EphemeralMode ==
    /\ db = NoneValue =>
          /\ session = <<>> /\ response = <<>>
          /\ req.op = "submitTextAnswer" => ret.status = "ok"
          /\ (req.op = "createSession"
                /\ req.args.mode \in {"text", "voice"}
                /\ req.args.difficulty \in {"Easy", "Intermediate", "Advanced", "Mixed"})
             => ret.status = "ok"
    /\ Served("createSession") =>
          /\ DOMAIN ret.body = {"session_id", "progress"}
          /\ ret.body.session_id \in SessionIdInputs
          /\ ret.body.progress = ZeroOfFive
    /\ Served("submitTextAnswer") =>
          /\ ret.body.content_score =
                Clamp(FloorFifth(TrimLen(req.args.answer)) + 40, 30, 100)
          /\ ret.body.correct = (ret.body.content_score > 60)
          /\ ret.body.next_available

\* Without a store, an answer is submitted and scored as correct.
C4_Witness ==
    /\ db = NoneValue
    /\ Served("submitTextAnswer")
    /\ ret.body.correct
    /\ response = <<>>

\* -------------------------------- C5 -------------------------------------
\* C5: a createSession whose mode is not text/voice or whose difficulty is
\* not Easy/Intermediate/Advanced/Mixed is rejected: it returns no session
\* identifier and leaves both collections as they were.
C5_InvalidCreateRejected ==
    [][(/\ req'.op = "createSession"
        /\ ~(/\ req'.args.mode \in {"text", "voice"}
             /\ req'.args.difficulty \in {"Easy", "Intermediate", "Advanced", "Mixed"}))
       => /\ ret'.status = "rejected"
          /\ ret'.body = <<>>
          /\ session' = session
          /\ response' = response]_vars

\* mode = video is rejected while a Session is stored.
C5_Witness ==
    /\ req.op = "createSession"
    /\ req.args.mode = "video"
    /\ ret.status = "rejected"
    /\ Len(session) >= 1

\* -------------------------------- C6 -------------------------------------
\* C6 (as claimed): a trimmed length above 100 gives correct = true; a
\* trimmed length of 0 gives content_score = 40 and correct = false.
C6_CorrectAbove100 ==
    Served("submitTextAnswer") =>
        LET L == TrimLen(req.args.answer)
        IN  /\ L > 100 => ret.body.correct
            /\ L = 0 => (ret.body.content_score = 40 /\ ~ret.body.correct)

\* C6 (amended): a trimmed length of at least 105 gives correct = true, a
\* trimmed length of 101..104 gives content_score = 60 and correct =
\* false, and a trimmed length of 0 gives content_score = 40 and correct =
\* false.
C6_CorrectFrom105 ==
    Served("submitTextAnswer") =>
        LET L == TrimLen(req.args.answer)
        IN  /\ L >= 105 => ret.body.correct
            /\ L \in 101..104 => (ret.body.content_score = 60 /\ ~ret.body.correct)
            /\ L = 0 => (ret.body.content_score = 40 /\ ~ret.body.correct)

\* A padded answer of trimmed length 105 is stored and scored correct.
C6_Witness ==
    /\ Served("submitTextAnswer")
    /\ TrimLen(req.args.answer) = 105
    /\ StrLen(req.args.answer) > 105
    /\ ret.body.correct
    /\ Len(response) >= 1

\* -------------------------------- C7 -------------------------------------
ScoreOf(L) == Clamp(FloorFifth(L) + 40, 30, 100)

\* C7: every submitTextAnswer returns (and stores) content_score =
\* clamp(floor(L / 5) + 40, 30, 100) for the trimmed length L, within
\* 30..100, with correct true exactly when content_score > 60; and the
\* score does not decrease with L, between any two stored Responses and
\* between any two submissions in a row.
C7_ScoreContract ==
    [][/\ (req'.op = "submitTextAnswer" /\ ret'.status = "ok") =>
             /\ ret'.body.content_score = ScoreOf(TrimLen(req'.args.answer))
             /\ ret'.body.content_score \in 30..100
             /\ ret'.body.correct = (ret'.body.content_score > 60)
       /\ \A i \in 1..Len(response') :
             /\ response'[i].feedback.content_score
                   = ScoreOf(TrimLen(response'[i].answer))
             /\ response'[i].feedback.correct
                   = (response'[i].feedback.content_score > 60)
             /\ \A j \in 1..Len(response') :
                   TrimLen(response'[i].answer) <= TrimLen(response'[j].answer)
                      => response'[i].feedback.content_score
                            <= response'[j].feedback.content_score
       /\ (Served("submitTextAnswer")
             /\ req'.op = "submitTextAnswer" /\ ret'.status = "ok"
             /\ TrimLen(req.args.answer) <= TrimLen(req'.args.answer))
          => ret.body.content_score <= ret'.body.content_score]_vars

\* The upper clamp acts: an answer longer than 300 characters scores 100.
C7_Witness ==
    /\ Served("submitTextAnswer")
    /\ TrimLen(req.args.answer) > 300
    /\ ret.body.content_score = 100

\* -------------------------------- C8 -------------------------------------
\* The label _pick_question is called with.
RequestedLabel ==
    IF req.args.difficulty \in {NoneValue, ""} THEN "Mixed" ELSE req.args.difficulty

\* C8: nextQuestion never fails; for Easy/Intermediate/Advanced the
\* question is tagged with the requested label and its prompt is a bank
\* entry under it; for Mixed the tag is one of the three levels, the prompt
\* is a bank entry under the tag, and each of the three tags can be drawn;
\* for any other label the question is "Tell me about yourself." tagged
\* with the requested label.
C8_DrawPolicy ==
    /\ req.op = "nextQuestion" =>
          /\ ret.status = "ok"
          /\ LET q == ret.body.question
                 d == RequestedLabel
             IN  /\ d \in BankLevels =>
                        (q.difficulty = d /\ q.text \in BankPrompts(d))
                 /\ d = "Mixed" =>
                        (q.difficulty \in BankLevels
                           /\ q.text \in BankPrompts(q.difficulty))
                 /\ d \notin BankLevels \cup {"Mixed"} =>
                        (q.difficulty = d /\ q.text = "Tell me about yourself.")
    /\ \A level \in BankLevels :
          ENABLED (/\ DoNextQuestion({"Mixed"})
                   /\ ret'.body.question.difficulty = level)

\* A Mixed draw yields an Advanced question.
C8_Witness ==
    /\ Served("nextQuestion")
    /\ req.args.difficulty = "Mixed"
    /\ ret.body.question.difficulty = "Advanced"
    /\ ret.body.question.text \in BankPrompts("Advanced")

\* -------------------------------- C9 -------------------------------------
\* C9 (as claimed): two nextQuestion calls in a row never return the same
\* question identifier.
C9_FreshQuestionIds ==
    [][(req.op = "nextQuestion" /\ req'.op = "nextQuestion")
          => ret'.body.question.id # ret.body.question.id]_vars

\* -------------------------------- C10 ------------------------------------
IsPrefix(s, t) == Len(s) <= Len(t) /\ SubSeq(t, 1, Len(s)) = s

\* C10: the store is append-only: every step keeps each stored Session and
\* Response as it was and adds at most one document; a createSession that
\* succeeds against the store adds exactly one Session (the one whose
\* identifier it returns) and no Response; a submitTextAnswer that succeeds
\* against the store adds exactly one Response and no Session; every other
\* operation leaves both collections alone; and every stored Session keeps
\* progress {current: 0, total: 5}.
C10_StoreAppendOnly ==
    [][/\ IsPrefix(session, session')
       /\ IsPrefix(response, response')
       /\ Len(session') + Len(response') <= Len(session) + Len(response) + 1
       /\ (db # NoneValue /\ req'.op = "createSession" /\ ret'.status = "ok")
          => /\ Len(session') = Len(session) + 1
             /\ session'[Len(session')]._id = ret'.body.session_id
             /\ response' = response
       /\ (db # NoneValue /\ req'.op = "submitTextAnswer" /\ ret'.status = "ok")
          => /\ Len(response') = Len(response) + 1
             /\ response'[Len(response')].answer = req'.args.answer
             /\ session' = session
       /\ req'.op \notin {"createSession", "submitTextAnswer"}
          => (session' = session /\ response' = response)
       /\ \A i \in 1..Len(session') : session'[i].progress = ZeroOfFive]_vars

\* A read-only operation is served while the store holds a Session and a
\* Response.
C10_Witness ==
    /\ req.op \in {"nextQuestion", "submitVoiceAnswer", "roundSummary", "finalReport"}
    /\ Len(session) >= 1
    /\ Len(response) >= 1

=============================================================================
